---- MODULE Spec2Model ----
(***************************************************************************)
(* Multi-head scaled dot-product attention (MultiHeadAttention) and the    *)
(* embedded-factor sequence provider (EmbeddedFactorSequence) of           *)
(* neuralmonkey, as state machines.                                        *)
(*                                                                         *)
(* Number representation.  All arithmetic is exact.                        *)
(*  - keys, values and learned weights are integers;                       *)
(*  - a query tensor is [root |-> r, val |-> integers]: its entries are    *)
(*    val * sqrt(r) * ln(ExpBase), so that multiplying by the scaling      *)
(*    factor 1/sqrt(head_dim) gives energies that are integer multiples of *)
(*    ln(ExpBase) and exp(energy) = ExpBase^energy is an integer;          *)
(*  - an energy is [inf |-> BOOLEAN, v |-> Int]; inf is -infinity;         *)
(*  - an attention weight is a fraction [n, a, b] = n / (a + b * 1e-8):    *)
(*    the epsilon of mask_weights is kept symbolic in the denominator;     *)
(*  - a context entry is [k, fr] = k + the sum of the fractions fr.        *)
(* Tensors are nested sequences, indexed from 1 (the code's index + 1).    *)
(***************************************************************************)
EXTENDS Integers, Sequences, FiniteSets, TLC

VARIABLES att, params, err, op, arg, out, calls, loop_state, steps_done, histories, summaries, finalized, seq, fd, variables

vars == <<att, params, err, op, arg, out, calls, loop_state, steps_done, histories, summaries, finalized, seq, fd, variables>>

----------------------------------------------------------------------------
(* Bounds of the model *)

\* largest channel count of an attendable (keys, values) and of a query
MaxDim == 2
\* largest number of key positions and of query positions
MaxTime == 2
\* tensors of the input families hold the binary digits of a seed 0..MaxSeed
MaxSeed == 1
\* head counts offered to the constructor are -1..MaxHeads
MaxHeads == 3
\* the decoding loop makes at most MaxSteps calls of attention (step)
MaxSteps == 2
\* attention_4d is called directly at most MaxComputes times on an object
MaxComputes == 1
\* visualize_attention is called while fewer than MaxSummaries images are collected
MaxSummaries == 1
\* dropout zeroes at most MaxDropped entries of the weight tensor per call
MaxDropped == 1
\* a sequence provider has at most MaxFactors factors
MaxFactors == 2
\* a dataset (batch) holds at most MaxBatch sentences
MaxBatch == 2
\* a sentence holds at most MaxLen words
MaxLen == 2
\* feed_dict is called at most MaxFeeds times on an object
MaxFeeds == 1
\* the tensors given to split_for_heads alone have at most MaxChannels channels
MaxChannels == 4
\* energies are integer multiples of ln(ExpBase)
ExpBase == 2^7

(* Program constants *)

\* 1 / 1e-8, the epsilon added to the norm in mask_weights
EpsInv == 100000000

----------------------------------------------------------------------------
(* Generic helpers on sequences and integers *)

RECURSIVE SumSeq(_)
SumSeq(s) == IF s = <<>> THEN 0 ELSE Head(s) + SumSeq(Tail(s))

RECURSIVE Pow(_, _)
Pow(x, n) == IF n = 0 THEN 1 ELSE x * Pow(x, n - 1)

MinOf(S) == CHOOSE x \in S : \A y \in S : x <= y

MaxOf(S) == CHOOSE x \in S : \A y \in S : x >= y

Range(s) == {s[i] : i \in DOMAIN s}

\* c * x <= e * y for c > 0 and y >= 0, without forming the large products
LeqProd(c, x, e, y) == x - (e \div c) * y <= ((e % c) * y) \div c

----------------------------------------------------------------------------
(* Input families *)

\* the tensor [time, channels] whose entries are the binary digits of seed
SeedMatrix(seed, time, chan) == [t \in 1..time |-> [c \in 1..chan |-> (seed \div Pow(2, (t - 1) * chan + (c - 1))) % 2]]

\* a batch of one sequence: [batch = 1, time, channels]
SeedTensor(seed, time, chan) == <<SeedMatrix(seed, time, chan)>>

\* get_attention_mask returns None for an attendable without a mask
NoMask == <<>>

\* validity masks [batch = 1, time] over {0, 1}, or no mask at all
Masks(time) == {NoMask} \cup {<<m>> : m \in [1..time -> {0, 1}]}

\* the attendables (encoders): temporal states and an optional mask
Attendables == UNION {{[states |-> SeedTensor(s, t, c), mask |-> m] : s \in 0..MaxSeed, c \in 1..MaxDim, m \in Masks(t)} : t \in 1..MaxTime}

\* dropout keep probabilities offered to the constructor, as <<num, den>>
KeepProbs == {<<n, 2>> : n \in -1..3}

\* learned dense layers: kernel[i][o] = diag if i = o, off otherwise; bias[o] = bias
ParamSets == {[diag |-> 1, off |-> 0, bias |-> 0], [diag |-> 1, off |-> 1, bias |-> 1]}

HistoryKeys == {"train", "val"}

----------------------------------------------------------------------------
(* Shapes *)

Batch(x) == Len(x)

Time(x) == Len(x[1])

Channels(x) == Len(x[1][1])

----------------------------------------------------------------------------
(* MultiHeadAttention.__init__ *)

\* the object before construction
NoAttention == [constructed |-> FALSE, n_heads |-> 0, dropout_keep_prob |-> <<1, 1>>, attention_keys |-> <<>>, attention_values |-> <<>>, attention_mask |-> NoMask, dimension |-> 0, head_dim |-> 0, scaling_factor |-> [inv_sqrt |-> 1], train_mode |-> FALSE]

\* __init__ with the dropout check "< 0" in place of "<= 0": a keep probability of 0 passes
InitErrorKeepZero(n_heads, keys_encoder, p) ==
    IF n_heads <= 0 THEN "ValueError"
    ELSE IF p[1] < 0 \/ p[1] > p[2] THEN "ValueError"
    ELSE IF Channels(keys_encoder.states) % n_heads # 0 THEN "ValueError"
    ELSE "none"

\* the exception __init__ raises for these arguments, "none" when it returns
InitError(n_heads, keys_encoder, p) ==
    IF n_heads <= 0 THEN "ValueError"
    ELSE IF p[1] <= 0 \/ p[1] > p[2] THEN "ValueError"
    ELSE IF Channels(keys_encoder.states) % n_heads # 0 THEN "ValueError"
    ELSE "none"

\* the fields __init__ sets when it returns
InitObject(n_heads, keys_encoder, values_encoder, p, train) ==
    LET dimension == Channels(keys_encoder.states)
        head_dim == dimension \div n_heads
    IN [constructed |-> TRUE,
        n_heads |-> n_heads,
        dropout_keep_prob |-> p,
        attention_keys |-> keys_encoder.states,
        attention_values |-> values_encoder.states,
        attention_mask |-> keys_encoder.mask,
        dimension |-> dimension,
        head_dim |-> head_dim,
        scaling_factor |-> [inv_sqrt |-> head_dim],
        train_mode |-> train]

----------------------------------------------------------------------------
(* Tensor operations used by attention_4d *)

\* the value of x, evaluated once (a tensor is computed once, not at every use)
Eval(x) == IF x = x THEN x ELSE x

\* kernel entry [i, o] of a learned dense layer
Kernel(p, i, o) == IF i = o THEN p.diag ELSE p.off

\* tf.layers.dense(x, units) on an integer tensor [batch, time, channels]
Dense(x, units, p) == [b \in 1..Batch(x) |-> [t \in 1..Time(x) |-> [o \in 1..units |-> SumSeq([i \in 1..Channels(x) |-> x[b][t][i] * Kernel(p, i, o)]) + p.bias]]]

\* the row-major sequence of the entries of a tensor [d1, d2, d3]
Flat3(x, d1, d2, d3) == [n \in 1..(d1 * d2 * d3) |-> x[((n - 1) \div (d2 * d3)) + 1][(((n - 1) \div d3) % d2) + 1][((n - 1) % d3) + 1]]

\* the row-major sequence of the entries of a tensor [d1, d2, d3, d4]
Flat4(x, d1, d2, d3, d4) == [n \in 1..(d1 * d2 * d3 * d4) |-> x[((n - 1) \div (d2 * d3 * d4)) + 1][(((n - 1) \div (d3 * d4)) % d2) + 1][(((n - 1) \div d4) % d3) + 1][((n - 1) % d4) + 1]]

\* tf.reshape of a row-major sequence to [d1, d2, d3]
Reshape3(flat, d1, d2, d3) == [i \in 1..d1 |-> [j \in 1..d2 |-> [k \in 1..d3 |-> flat[((i - 1) * d2 + (j - 1)) * d3 + k]]]]

\* tf.reshape of a row-major sequence to [d1, d2, d3, d4]
Reshape4(flat, d1, d2, d3, d4) == [i \in 1..d1 |-> [j \in 1..d2 |-> [k \in 1..d3 |-> [l \in 1..d4 |-> flat[(((i - 1) * d2 + (j - 1)) * d3 + (k - 1)) * d4 + l]]]]]

\* tf.transpose(x, perm=[0, 2, 1, 3]) of a tensor [d1, d2, d3, d4]
Transpose0213(x, d1, d2, d3, d4) == [i \in 1..d1 |-> [k \in 1..d3 |-> [j \in 1..d2 |-> [l \in 1..d4 |-> x[i][j][k][l]]]]]

\* the reshape of split_for_heads is defined when the element counts agree
SplitDefined(x, n_heads, head_dim) == Channels(x) = n_heads * head_dim

\* split_for_heads that reshapes to [batch, n_heads, time, head_dim] without the transpose
split_for_heads_no_transpose(x, n_heads, head_dim) == Reshape4(Flat3(x, Batch(x), Time(x), Channels(x)), Batch(x), n_heads, Time(x), head_dim)

\* [batch, time, dim] to [batch, n_heads, time, head_dim]
split_for_heads(x, n_heads, head_dim) ==
    LET x_4d == Reshape4(Flat3(x, Batch(x), Time(x), Channels(x)), Batch(x), Time(x), n_heads, head_dim)
    IN Transpose0213(x_4d, Batch(x), Time(x), n_heads, head_dim)

\* query * 1/sqrt(head_dim): the root of the query's unit is divided out
ScaleQuery(query, scaling_factor) == [root |-> query.root \div scaling_factor.inv_sqrt, val |-> query.val]

\* tf.matmul(query, keys, transpose_b=True): [batch, head, time(q), time(k)]
MatMulT(query, keys) == [b \in DOMAIN query |-> [h \in DOMAIN query[b] |-> [q \in DOMAIN query[b][h] |-> [k \in DOMAIN keys[b][h] |-> [inf |-> FALSE, v |-> SumSeq([j \in DOMAIN query[b][h][q] |-> query[b][h][q][j] * keys[b][h][k][j]])]]]]]

\* a band that keeps one key to the right of the query: matrix_band_part(x, -1, 1)
InBandOneAhead(q, k) == k - q <= 1

\* the key at column k is kept for the query at row q: matrix_band_part(x, -1, 0)
InBand(q, k) == k - q <= 0

\* energies of keys to the right of the query become -infinity
mask_future(energies) == [b \in DOMAIN energies |-> [h \in DOMAIN energies[b] |-> [q \in DOMAIN energies[b][h] |-> [k \in DOMAIN energies[b][h][q] |-> IF InBand(q, k) THEN energies[b][h][q][k] ELSE [inf |-> TRUE, v |-> 0]]]]]

\* exp of every energy of a row, divided by the exp of the least finite one
ExpRow(row) ==
    LET finite == {row[k].v : k \in {i \in DOMAIN row : ~row[i].inf}}
    IN [k \in DOMAIN row |-> IF row[k].inf THEN 0 ELSE Pow(ExpBase, row[k].v - MinOf(finite))]

\* tf.nn.softmax along the last axis; a row is [num, a, b]: num[k] / (a + b * 1e-8)
Softmax(energies) == [b \in DOMAIN energies |-> [h \in DOMAIN energies[b] |-> [q \in DOMAIN energies[b][h] |-> [num |-> ExpRow(energies[b][h][q]), a |-> SumSeq(ExpRow(energies[b][h][q])), b |-> 0]]]]

\* mask_weights that normalizes by the masked sum but returns the unmasked weights
MaskRowUnmasked(row, mask_row) ==
    LET weights_all == [k \in DOMAIN row.num |-> row.num[k] * mask_row[k]]
    IN [num |-> row.num, a |-> SumSeq(weights_all), b |-> row.a]

\* mask_weights that divides by the masked sum alone, without the epsilon
MaskRowNoEpsilon(row, mask_row) ==
    LET weights_all == [k \in DOMAIN row.num |-> row.num[k] * mask_row[k]]
    IN [num |-> weights_all, a |-> SumSeq(weights_all), b |-> 0]

\* one row of mask_weights: (num/a * mask) / (sum(num/a * mask) + 1e-8)
MaskRow(row, mask_row) ==
    LET weights_all == [k \in DOMAIN row.num |-> row.num[k] * mask_row[k]]
    IN [num |-> weights_all, a |-> SumSeq(weights_all), b |-> row.a]

\* apply the mask [batch, time(k)] to the softmax weights and renormalize
mask_weights(weights_4d, mask) == [b \in DOMAIN weights_4d |-> [h \in DOMAIN weights_4d[b] |-> [q \in DOMAIN weights_4d[b][h] |-> MaskRow(weights_4d[b][h][q], mask[b])]]]

\* the positions <<b, h, q, k>> of a weight tensor
Positions(w) == UNION {UNION {UNION {{<<b, h, q, k>> : k \in DOMAIN w[b][h][q].num} : q \in DOMAIN w[b][h]} : h \in DOMAIN w[b]} : b \in DOMAIN w}

\* dropout is the identity unless training with keep_prob < 1
DropoutActive(keep_prob, train_mode) == train_mode /\ keep_prob[1] # keep_prob[2]

\* dropout: the entries in dropped become 0, the others are divided by keep_prob
Dropout(w, keep_prob, train_mode, dropped) ==
    IF ~DropoutActive(keep_prob, train_mode) THEN w
    ELSE [b \in DOMAIN w |-> [h \in DOMAIN w[b] |-> [q \in DOMAIN w[b][h] |->
            [num |-> [k \in DOMAIN w[b][h][q].num |-> IF <<b, h, q, k>> \in dropped THEN 0 ELSE w[b][h][q].num[k] * keep_prob[2]],
             a |-> w[b][h][q].a * keep_prob[1],
             b |-> w[b][h][q].b * keep_prob[1]]]]]

\* two sizes of an axis broadcast: they are equal, or one of them is 1
BroadcastDefined(n, m) == n = m \/ n = 1 \/ m = 1

\* the size of the broadcast axis
BroadcastSize(n, m) == IF n = 1 THEN m ELSE n

\* the index read at position i of the broadcast axis from an operand of size n
BroadcastIndex(i, n) == IF n = 1 THEN 1 ELSE i

\* the product expand_dims(w, 4) * expand_dims(values, 2) is defined: the batch axes
\* and the time(k) axes of the weights and of the values broadcast
WeightedSumDefined(w, values) == BroadcastDefined(Len(w), Len(values)) /\ BroadcastDefined(Len(w[1][1][1].num), Len(values[1][1]))

\* reduce_sum(expand_dims(w, 4) * expand_dims(values, 2), 3): the broadcast product
\* [batch, head, time(q), time(k), head_dim] summed over time(k);
\* [batch, head, time(q), head_dim] of fractions
WeightedSum(w, values) == [b \in 1..BroadcastSize(Len(w), Len(values)) |-> [h \in DOMAIN w[1] |-> [q \in DOMAIN w[1][h] |-> [j \in DOMAIN values[1][h][1] |-> LET row == w[BroadcastIndex(b, Len(w))][h][q] vals == values[BroadcastIndex(b, Len(values))][h] IN [n |-> SumSeq([k \in 1..BroadcastSize(Len(row.num), Len(vals)) |-> row.num[BroadcastIndex(k, Len(row.num))] * vals[BroadcastIndex(k, Len(vals))][j]]), a |-> row.a, b |-> row.b]]]]]

\* transpose to [batch, time(q), head, head_dim] and reshape to [batch, time(q), dimension]
MergeHeads(context_4d, dimension) ==
    LET d1 == Len(context_4d)
        d2 == Len(context_4d[1])
        d3 == Len(context_4d[1][1])
        d4 == Len(context_4d[1][1][1])
        tr == Transpose0213(context_4d, d1, d2, d3, d4)
    IN Reshape3(Flat4(tr, d1, d3, d2, d4), d1, d3, dimension)

\* tf.layers.dense on a tensor of fractions: bias + sum over i of x[i] * kernel[i, o]
DenseFrac(x, units, p) == [b \in DOMAIN x |-> [t \in DOMAIN x[b] |-> [o \in 1..units |-> [k |-> p.bias, fr |-> [i \in DOMAIN x[b][t] |-> [n |-> x[b][t][i].n * Kernel(p, i, o), a |-> x[b][t][i].a, b |-> x[b][t][i].b]]]]]]

----------------------------------------------------------------------------
(* MultiHeadAttention.attention_4d *)

\* the first half of attention_4d: projections, scaling, head split, dot products
\* and the causal mask; [batch, head, time(q), time(k)] of energies
masked_energies(self, p, query_3d, masked) ==
    LET query_proj == IF self.n_heads > 1 THEN [root |-> query_3d.root, val |-> Dense(query_3d.val, self.dimension, p)] ELSE query_3d
        keys_proj == IF self.n_heads > 1 THEN Dense(self.attention_keys, self.dimension, p) ELSE self.attention_keys
        query_scaled == ScaleQuery(query_proj, self.scaling_factor)
        query == split_for_heads(query_scaled.val, self.n_heads, self.head_dim)
        keys == split_for_heads(keys_proj, self.n_heads, self.head_dim)
        energies == Eval(MatMulT(Eval(query), Eval(keys)))
    IN IF masked THEN mask_future(energies) ELSE energies

\* the values, projected when there are several heads
projected_values(self, p) == IF self.n_heads > 1 THEN Dense(self.attention_values, self.dimension, p) ELSE self.attention_values

\* the reshapes of split_for_heads succeed for the query, the keys and the values
SplitsDefined(self, p, query_3d) ==
    /\ SplitDefined(query_3d.val, self.n_heads, self.head_dim) \/ self.n_heads > 1
    /\ SplitDefined(projected_values(self, p), self.n_heads, self.head_dim)

\* the weights can be computed: the reshape of split_for_heads succeeds for the
\* query (the keys have dimension channels); the values take no part in them
WeightsDefined(self, query_3d) == SplitDefined(query_3d.val, self.n_heads, self.head_dim) \/ self.n_heads > 1

\* what attention_4d returns, as evaluated: the context [batch, time(q), dimension]
\* with the error of evaluating it (err) and the weights [batch, head, time(q),
\* time(k)] with theirs (weights_err); "none" is a value.  The weights are made
\* from the query and the keys alone and have a value also where the values
\* cannot be split or multiplied, which fails the context only
attention_4d(self, p, query_3d, masked, dropped) ==
    LET values == Eval(split_for_heads(projected_values(self, p), self.n_heads, self.head_dim))
        weights_sm == Eval(Softmax(Eval(masked_energies(self, p, query_3d, masked))))
        weights_mk == IF self.attention_mask # NoMask THEN mask_weights(weights_sm, self.attention_mask) ELSE weights_sm
        weights_4d == Eval(Dropout(Eval(weights_mk), self.dropout_keep_prob, self.train_mode, dropped))
        context_4d == Eval(WeightedSum(weights_4d, values))
        context_3d == Eval(MergeHeads(context_4d, self.dimension))
        context_out == DenseFrac(context_3d, self.dimension, p)
    IN IF ~WeightsDefined(self, query_3d) THEN [err |-> "InvalidArgumentError", context |-> <<>>, weights_err |-> "InvalidArgumentError", weights |-> <<>>]
       ELSE IF ~SplitsDefined(self, p, query_3d) THEN [err |-> "InvalidArgumentError", context |-> <<>>, weights_err |-> "none", weights |-> weights_4d]
       ELSE IF ~WeightedSumDefined(weights_4d, values) THEN [err |-> "InvalidArgumentError", context |-> <<>>, weights_err |-> "none", weights |-> weights_4d]
       ELSE [err |-> "none", context |-> context_out, weights_err |-> "none", weights |-> weights_4d]

\* the variable scopes attention_4d opens with tf.layers.dense(..., name=...): the
\* three projections when there are several heads, and the output projection always
VariableScopes(self) == IF self.n_heads > 1 THEN {"query_proj", "keys_proj", "vals_proj", "output_proj"} ELSE {"output_proj"}

\* the exception of the variable creation in a call of attention_4d, "none" when
\* the variables are made or reused.  existing are the variable scopes made by
\* earlier calls and reuse is the reuse mode of the enclosing variable scope
\* ("False", "True" or "AUTO_REUSE"): tf.layers.dense fails on a variable that
\* exists unless the scope reuses, and on a missing one when the scope has reuse=True
VariableError(self, existing, reuse) ==
    IF reuse = "False" /\ VariableScopes(self) \cap existing # {} THEN "ValueError"
    ELSE IF reuse = "True" /\ ~(VariableScopes(self) \subseteq existing) THEN "ValueError"
    ELSE "none"

\* the property context_vector_size: the channel count of the values source
context_vector_size(self) == Channels(self.attention_values)

----------------------------------------------------------------------------
(* Inputs of the calls *)

\* the states of a values source: [batch = 1, time, channels], channel 1 of
\* position t holds t, the other channels hold 1
ValueStates(time, chan) == <<[t \in 1..time |-> [c \in 1..chan |-> IF c = 1 THEN t ELSE 1]]>>

\* the values sources offered with a keys source: none (the keys are the values)
\* or an attendable of its own, of any length up to MaxTime + 1 and any channel count
ValueSources(keys_encoder) == {[states |-> ValueStates(t, c), mask |-> NoMask] : t \in 1..(MaxTime + 1), c \in 1..MaxDim}

\* queries [batch = 1, time(q), dimension] in units of sqrt(head_dim) * ln(ExpBase)
Queries(self) == {[root |-> self.head_dim, val |-> SeedTensor(s, t, self.dimension)] : s \in 0..MaxSeed, t \in 1..MaxTime}

\* the positions of a weight tensor of this shape
PositionsOf(nb, nh, nq, nk) == (1..nb) \X (1..nh) \X (1..nq) \X (1..nk)

\* the sets of entries dropout may zero in one call
DropChoices(self, nq) ==
    IF DropoutActive(self.dropout_keep_prob, self.train_mode)
    THEN {d \in SUBSET PositionsOf(Batch(self.attention_keys), self.n_heads, nq, Time(self.attention_keys)) : Cardinality(d) <= MaxDropped}
    ELSE {{}}

NoOut == [err |-> "none", context |-> <<>>, weights_err |-> "none", weights |-> <<>>]

\* a TensorArray of size 0: its slots, and the error of evaluating it
EmptyArray == [slots |-> <<>>, err |-> "none"]

NoLoopState == [exists |-> FALSE, contexts |-> EmptyArray, head_weights |-> <<>>]

\* an optional integer: Python's None, or the integer n
None == [given |-> FALSE, value |-> 0]

Some(n) == [given |-> TRUE, value |-> n]

\* the sequence provider before construction
NoSequence == [constructed |-> FALSE, vocabularies |-> <<>>, data_ids |-> <<>>, embedding_sizes |-> <<>>, max_length |-> None, add_start_symbol |-> FALSE, add_end_symbol |-> FALSE, input_factors |-> <<>>, mask |-> <<>>]

----------------------------------------------------------------------------
(* Construction and compute *)

\* MultiHeadAttention(name, n_heads, keys_encoder, values_encoder, dropout_keep_prob)
Construct(n_heads, keys_encoder, values_given, values_encoder, p, train) ==
    /\ ~att.constructed
    /\ op = "none"
    /\ op' = "init"
    /\ arg' = [n_heads |-> n_heads, p |-> p, dimension |-> Channels(keys_encoder.states), values_channels |-> Channels(values_encoder.states)]
    /\ err' = InitError(n_heads, keys_encoder, p)
    /\ att' = IF InitError(n_heads, keys_encoder, p) = "none"
              THEN InitObject(n_heads, keys_encoder, IF values_given THEN values_encoder ELSE keys_encoder, p, train)
              ELSE att
    /\ UNCHANGED <<params, out, calls, loop_state, steps_done, histories, summaries, finalized, seq, fd, variables>>

\* attention_4d(query_3d, masked) on the constructed object, in a variable scope
\* that does not reuse (the default): a call after the first cannot make its variables
Compute(query_3d, masked, dropped) ==
    /\ att.constructed
    /\ calls < MaxComputes
    /\ calls' = calls + 1
    /\ op' = "compute"
    /\ arg' = [query |-> query_3d, masked |-> masked]
    /\ out' = IF VariableError(att, variables, "False") # "none"
              THEN [err |-> VariableError(att, variables, "False"), context |-> <<>>, weights_err |-> VariableError(att, variables, "False"), weights |-> <<>>]
              ELSE attention_4d(att, params, query_3d, masked, dropped)
    /\ err' = out'.err
    /\ variables' = variables \cup VariableScopes(att)
    /\ UNCHANGED <<att, params, loop_state, steps_done, histories, summaries, finalized, seq, fd>>

Init ==
    /\ att = NoAttention
    /\ params \in ParamSets
    /\ err = "none"
    /\ op = "none"
    /\ arg = <<>>
    /\ out = NoOut
    /\ calls = 0
    /\ loop_state = NoLoopState
    /\ steps_done = <<>>
    /\ histories = <<>>
    /\ summaries = <<>>
    /\ finalized = {}
    /\ seq = NoSequence
    /\ fd = <<>>
    /\ variables = {}

Next ==
    \/ \E n_heads \in -1..MaxHeads, keys_encoder \in Attendables, p \in KeepProbs, train \in BOOLEAN :
         \/ Construct(n_heads, keys_encoder, FALSE, keys_encoder, p, train)
         \/ \E values_encoder \in ValueSources(keys_encoder) : Construct(n_heads, keys_encoder, TRUE, values_encoder, p, train)
    \/ \E query_3d \in Queries(att), masked \in BOOLEAN :
         \E dropped \in DropChoices(att, Time(query_3d.val)) : Compute(query_3d, masked, dropped)

Spec == Init /\ [][Next]_vars

----------------------------------------------------------------------------
(* The decoding loop: attention (step), initial_loop_state, finalize_loop,
   visualize_attention *)

\* a slot of a TensorArray that no write has filled
Unwritten == <<>>

\* slot index (from 0) of the TensorArray holds a value
Written(ta, index) == index + 1 <= Len(ta.slots) /\ ta.slots[index + 1] # Unwritten

\* TensorArray.write(index, value) on a dynamically sized array, as the array the
\* call returns has it when the graph is run: slot index (from 0) holds value and
\* the array grows to hold it.  The call itself always returns an array; running
\* the write fails when the array it writes to or the value (value_err) fails, and
\* when the slot was written before (a slot is written once)
Write(ta, index, value, value_err) ==
    IF ta.err # "none" THEN ta
    ELSE IF value_err # "none" THEN [slots |-> ta.slots, err |-> value_err]
    ELSE IF Written(ta, index) THEN [slots |-> ta.slots, err |-> "InvalidArgumentError"]
    ELSE [slots |-> [j \in 1..(IF Len(ta.slots) > index + 1 THEN Len(ta.slots) ELSE index + 1) |-> IF j = index + 1 THEN value ELSE IF j <= Len(ta.slots) THEN ta.slots[j] ELSE Unwritten],
          err |-> "none"]

\* zeros of the shape of the weights v [batch] of rows [num, a, b]
ZerosLike(v) == [b \in DOMAIN v |-> [num |-> [k \in DOMAIN v[b].num |-> 0], a |-> 1, b |-> 0]]

\* the slots of the array that hold a value
WrittenSlots(ta) == {t \in DOMAIN ta.slots : ta.slots[t] # Unwritten}

\* TensorArray.stack(), evaluated: the slots along a new first (time) axis, with the
\* error of the evaluation ("none" when there is a value).  An array whose writes
\* fail has no value.  An array of size 0 cannot be stacked: its element shape is
\* not given (dtype, size, dynamic_size only) and no write defined it.  An
\* unwritten slot below a written one reads, depending on the TensorFlow at hand,
\* as zeros of the written shape (zero_fill) or not at all.
Stack(ta, zero_fill) ==
    IF ta.err # "none" THEN [err |-> ta.err, value |-> <<>>]
    ELSE IF Len(ta.slots) = 0 THEN [err |-> "UnimplementedError", value |-> <<>>]
    ELSE IF WrittenSlots(ta) = DOMAIN ta.slots THEN [err |-> "none", value |-> [t \in 1..Len(ta.slots) |-> ta.slots[t]]]
    ELSE IF zero_fill THEN [err |-> "none", value |-> [t \in 1..Len(ta.slots) |-> IF ta.slots[t] = Unwritten THEN ZerosLike(ta.slots[MinOf(WrittenSlots(ta))]) ELSE ta.slots[t]]]
    ELSE [err |-> "InvalidArgumentError", value |-> <<>>]

\* tf.expand_dims(query, 1): [batch, size] to [batch, 1, size]
ExpandDims1(x) == [b \in DOMAIN x |-> <<x[b]>>]

\* tf.split(weights_4d, n_heads, axis=1): n_heads tensors [batch, 1, time(q), time(k)]
SplitHeads(weights_4d, n_heads) == [i \in 1..n_heads |-> [b \in DOMAIN weights_4d |-> <<weights_4d[b][i]>>]]

\* tf.squeeze(x, axis=1) of [batch, 1, channels]
Squeeze1(x) == [b \in DOMAIN x |-> x[b][1]]

\* tf.squeeze(w, axis=[1, 2]) of [batch, 1, 1, time(k)]
Squeeze12(w) == [b \in DOMAIN w |-> w[b][1][1]]

\* MultiHeadLoopStateTA with empty arrays, one per head
initial_loop_state(self) == [exists |-> TRUE, contexts |-> EmptyArray, head_weights |-> [i \in 1..self.n_heads |-> EmptyArray]]

\* attention whose loop over the heads starts at 1: the weights of head 0 are not written
attention_from_head_1(self, p, query, ls, step, dropped, existing, reuse) ==
    LET r == attention_4d(self, p, [root |-> query.root, val |-> ExpandDims1(query.val)], FALSE, dropped)
        head_weights_3d == SplitHeads(r.weights, self.n_heads)
        context == Squeeze1(r.context)
        head_weights == [i \in 1..self.n_heads |-> Squeeze12(head_weights_3d[i])]
    IN IF VariableError(self, existing, reuse) # "none"
       THEN [raised |-> TRUE, err |-> VariableError(self, existing, reuse), context |-> <<>>, loop_state |-> ls]
       ELSE [raised |-> FALSE,
             err |-> r.err,
             context |-> context,
             loop_state |-> [exists |-> TRUE, contexts |-> Write(ls.contexts, step, context, r.err), head_weights |-> [i \in 1..self.n_heads |-> IF i = 1 THEN ls.head_weights[i] ELSE Write(ls.head_weights[i], step, head_weights[i], r.weights_err)]]]

\* what attention does.  When attention_4d cannot make its variables the call
\* raises (raised) and returns nothing.  Otherwise it returns, whatever the step,
\* the context [batch, dimension] with the error of evaluating it (err) and the
\* next loop state, whose arrays are the given ones after write(step, ...): no
\* write is looked at by the call, one that fails does so when its array is run
attention(self, p, query, ls, step, dropped, existing, reuse) ==
    LET r == attention_4d(self, p, [root |-> query.root, val |-> ExpandDims1(query.val)], FALSE, dropped)
        head_weights_3d == SplitHeads(r.weights, self.n_heads)
        context == Squeeze1(r.context)
        head_weights == [i \in 1..self.n_heads |-> Squeeze12(head_weights_3d[i])]
    IN IF VariableError(self, existing, reuse) # "none"
       THEN [raised |-> TRUE, err |-> VariableError(self, existing, reuse), context |-> <<>>, loop_state |-> ls]
       ELSE [raised |-> FALSE,
             err |-> r.err,
             context |-> context,
             loop_state |-> [exists |-> TRUE, contexts |-> Write(ls.contexts, step, context, r.err), head_weights |-> [i \in 1..self.n_heads |-> Write(ls.head_weights[i], step, head_weights[i], r.weights_err)]]]

\* the key "{}_head{}".format(key, i) of a history
HeadKey(key, i) == <<key, "_head", i>>

\* finalize_loop whose loop over the heads starts at 1: head 0 is not stored
finalize_loop_from_head_1(self, hist, key, last_loop_state, zero_fill) == [hk \in DOMAIN hist \cup {HeadKey(key, i) : i \in 1..(self.n_heads - 1)} |-> IF hk \in {HeadKey(key, i) : i \in 1..(self.n_heads - 1)} THEN Stack(last_loop_state.head_weights[hk[3] + 1], zero_fill) ELSE hist[hk]]

\* the histories after finalize_loop(key, last_loop_state): every head's stacked
\* weights, as the value the stored tensor has when it is evaluated
finalize_loop(self, hist, key, last_loop_state, zero_fill) == [hk \in DOMAIN hist \cup {HeadKey(key, i) : i \in 0..(self.n_heads - 1)} |-> IF hk \in {HeadKey(key, i) : i \in 0..(self.n_heads - 1)} THEN Stack(last_loop_state.head_weights[hk[3] + 1], zero_fill) ELSE hist[hk]]

\* the heads visualize_attention(key) reaches before it raises or returns
HeadsVisualized(self, hist, key) == {i \in 0..(self.n_heads - 1) : \A j \in 0..i : HeadKey(key, j) \in DOMAIN hist}

\* tf.expand_dims(tf.transpose(history, perm=[1, 2, 0]), -1) of [time, batch, time(k)]:
\* the shape [batch, time(k), time, 1] of the image, where the history has a value
Alignments(history) ==
    IF history.err # "none" THEN [err |-> history.err, shape |-> <<>>]
    ELSE [err |-> "none", shape |-> <<Len(history.value[1]), Len(history.value[1][1].num), Len(history.value), 1>>]

\* the summaries visualize_attention(key) adds
NewSummaries(self, hist, key) == [n \in 1..Cardinality(HeadsVisualized(self, hist, key)) |-> [head |-> n - 1, image |-> Alignments(hist[HeadKey(key, n - 1)])]]

\* the exception visualize_attention(key) raises, "none" when it returns
VisualizeError(self, hist, key) == IF \E i \in 0..(self.n_heads - 1) : HeadKey(key, i) \notin DOMAIN hist THEN "ValueError" ELSE "none"

\* the decoder's query at a step: [batch = 1, dimension], of seed step mod (MaxSeed + 1)
StepQueries(self, step) == {[root |-> self.head_dim, val |-> SeedTensor(step % (MaxSeed + 1), 1, self.dimension)[1]]}

\* the reuse modes of a variable scope: reuse=False (or None), reuse=True, tf.AUTO_REUSE
ReuseModes == {"False", "True", "AUTO_REUSE"}

InitialLoopState ==
    /\ att.constructed
    /\ op' = "initial_loop_state"
    /\ arg' = <<>>
    /\ err' = "none"
    /\ loop_state' = initial_loop_state(att)
    /\ steps_done' = <<>>
    /\ UNCHANGED <<att, params, out, calls, histories, summaries, finalized, seq, fd, variables>>

\* one call of attention(query, ..., loop_state, step) by the decoder, in a variable
\* scope of reuse mode reuse, with the loop state the last call returned.  A call
\* that raises leaves the decoder with the loop state it had.
Step(query, step, dropped, reuse) ==
    /\ att.constructed
    /\ loop_state.exists
    /\ Len(steps_done) < MaxSteps
    /\ op' = "attention"
    /\ arg' = [query |-> query, step |-> step, reuse |-> reuse]
    /\ \E r \in {attention(att, params, query, loop_state, step, dropped, variables, reuse)} :
          /\ err' = r.err
          /\ out' = [err |-> r.err, context |-> r.context, weights_err |-> "none", weights |-> <<>>]
          /\ loop_state' = r.loop_state
          /\ steps_done' = IF r.raised THEN steps_done ELSE Append(steps_done, step)
          /\ variables' = IF r.raised THEN variables ELSE variables \cup VariableScopes(att)
    /\ UNCHANGED <<att, params, calls, histories, summaries, finalized, seq, fd>>

FinalizeLoop(key, zero_fill) ==
    /\ att.constructed
    /\ loop_state.exists
    /\ op' = "finalize_loop"
    /\ arg' = [key |-> key]
    /\ err' = "none"
    /\ histories' = finalize_loop(att, histories, key, loop_state, zero_fill)
    /\ finalized' = finalized \cup {key}
    /\ UNCHANGED <<att, params, out, calls, loop_state, steps_done, summaries, seq, fd, variables>>

Visualize(key) ==
    /\ att.constructed
    /\ Len(summaries) < MaxSummaries
    /\ op' = "visualize_attention"
    /\ arg' = [key |-> key]
    /\ err' = VisualizeError(att, histories, key)
    /\ summaries' = summaries \o NewSummaries(att, histories, key)
    /\ UNCHANGED <<att, params, out, calls, loop_state, steps_done, histories, finalized, seq, fd, variables>>

\* the keys of the decoding loop, with and without a padded last position
LoopKeys == {a \in Attendables : a.states = SeedTensor(MaxSeed, MaxTime, MaxDim) /\ a.mask \in {NoMask, <<[t \in 1..MaxTime |-> IF t = MaxTime THEN 0 ELSE 1]>>}}

\* the objects of the decoding loop, in inference mode: every head count that
\* divides the keys' channel count, over the keys as their own values and, for
\* the keys without a mask, over values one position longer than the keys
LoopObjects ==
    {InitObject(h, k, k, <<2, 2>>, FALSE) : h \in {n \in 1..MaxHeads : MaxDim % n = 0}, k \in LoopKeys}
    \cup {InitObject(h, k, [states |-> ValueStates(MaxTime + 1, MaxDim), mask |-> NoMask], <<2, 2>>, FALSE) : h \in {n \in 1..MaxHeads : MaxDim % n = 0}, k \in {a \in LoopKeys : a.mask = NoMask}}

InitLoop ==
    /\ att \in LoopObjects
    /\ params \in {ps \in ParamSets : ps.bias = 1}
    /\ err = "none"
    /\ op = "init"
    /\ arg = <<>>
    /\ out = NoOut
    /\ calls = 0
    /\ loop_state = NoLoopState
    /\ steps_done = <<>>
    /\ histories = <<>>
    /\ summaries = <<>>
    /\ finalized = {}
    /\ seq = NoSequence
    /\ fd = <<>>
    /\ variables = {}

NextLoop ==
    \/ InitialLoopState
    \/ \E step \in 0..(MaxSteps - 1) :
         \E query \in StepQueries(att, step), dropped \in DropChoices(att, 1), reuse \in ReuseModes : Step(query, step, dropped, reuse)
    \/ \E key \in HistoryKeys, zero_fill \in BOOLEAN : FinalizeLoop(key, zero_fill)
    \/ \E key \in HistoryKeys : Visualize(key)

SpecLoop == InitLoop /\ [][NextLoop]_vars

----------------------------------------------------------------------------
(* The sequence provider: Sequence.__init__, EmbeddedFactorSequence.__init__ and
   feed_dict.  The vocabulary and the dataset are outside these sources: a
   dataset holds, under every series name, one token list per sentence of the
   batch, and sentences_to_tensor returns time-major arrays [time, batch]. *)

\* the series names of a dataset
SeriesNames == {"a", "b"}

\* a sentence of n words
Sentence(n) == [i \in 1..n |-> "w"]

\* the datasets: 1..MaxBatch sentences, every series holds a token list of at most
\* MaxLen words for every sentence
Datasets == UNION {[SeriesNames -> [1..nb -> {Sentence(n) : n \in 0..MaxLen}]] : nb \in 1..MaxBatch}

\* sequences over S of length at most n
SeqsUpTo(S, n) == UNION {[1..m -> S] : m \in 0..n}

\* the placeholder "mask" and the placeholder "factor_{did}" made for factor i
MaskPlaceholder == <<"mask", "", 0>>

FactorPlaceholder(did, i) == <<"factor", did, i>>

\* the exception Sequence.__init__ raises, "none" when it returns
SequenceInitError(max_length) == IF max_length # None /\ max_length.value <= 0 THEN "ValueError" ELSE "none"

\* the embedding size check with "< 0" in place of "<= 0": a size of 0 passes
SeqInitErrorSizeZero(vocabularies, data_ids, embedding_sizes, max_length) ==
    IF SequenceInitError(max_length) # "none" THEN SequenceInitError(max_length)
    ELSE IF ~(Len(data_ids) = Len(vocabularies) /\ Len(vocabularies) = Len(embedding_sizes)) THEN "ValueError"
    ELSE IF \E i \in DOMAIN embedding_sizes : embedding_sizes[i] < 0 THEN "ValueError"
    ELSE "none"

\* the exception EmbeddedFactorSequence.__init__ raises, "none" when it returns
SeqInitError(vocabularies, data_ids, embedding_sizes, max_length) ==
    IF SequenceInitError(max_length) # "none" THEN SequenceInitError(max_length)
    ELSE IF ~(Len(data_ids) = Len(vocabularies) /\ Len(vocabularies) = Len(embedding_sizes)) THEN "ValueError"
    ELSE IF \E i \in DOMAIN embedding_sizes : embedding_sizes[i] <= 0 THEN "ValueError"
    ELSE "none"

\* the fields EmbeddedFactorSequence.__init__ sets when it returns
SeqInitObject(vocabularies, data_ids, embedding_sizes, max_length, add_start_symbol, add_end_symbol) ==
    [constructed |-> TRUE,
     vocabularies |-> vocabularies,
     data_ids |-> data_ids,
     embedding_sizes |-> embedding_sizes,
     max_length |-> max_length,
     add_start_symbol |-> add_start_symbol,
     add_end_symbol |-> add_end_symbol,
     input_factors |-> [i \in DOMAIN data_ids |-> FactorPlaceholder(data_ids[i], i)],
     mask |-> MaskPlaceholder]

\* dataset.get_series(name)
get_series(dataset, name) == dataset[name]

\* vocabulary.sentences_to_tensor(sentences, max_len, pad_to_max_len=False, ...):
\* the word indices and the padding weights, both [time, batch]; time is the
\* longest sentence, cut to max_len, plus the start and the end symbol
sentences_to_tensor(vocabulary, sentences, max_len, train_mode, add_start_symbol, add_end_symbol) ==
    LET longest == MaxOf({Len(sentences[j]) : j \in DOMAIN sentences})
        cut == IF max_len = None THEN longest ELSE MinOf({max_len.value, longest})
        time == cut + (IF add_end_symbol THEN 1 ELSE 0)
        Word(i, sent) == IF i <= Len(sent) THEN sent[i] ELSE IF i = Len(sent) + 1 /\ add_end_symbol THEN "</s>" ELSE "<pad>"
        Weight(i, sent) == IF i <= Len(sent) \/ (i = Len(sent) + 1 /\ add_end_symbol) THEN 1 ELSE 0
        start_words == IF add_start_symbol THEN <<[j \in DOMAIN sentences |-> "<s>"]>> ELSE <<>>
        start_weights == IF add_start_symbol THEN <<[j \in DOMAIN sentences |-> 1]>> ELSE <<>>
    IN [vectors |-> start_words \o [i \in 1..time |-> [j \in DOMAIN sentences |-> Word(i, sentences[j])]],
        paddings |-> start_weights \o [i \in 1..time |-> [j \in DOMAIN sentences |-> Weight(i, sentences[j])]]]

\* ndarray.tostring(): the entries in row-major order, without the shape
tostring(x) == IF x = <<>> THEN <<>> ELSE [n \in 1..(Len(x) * Len(x[1])) |-> x[((n - 1) \div Len(x[1])) + 1][((n - 1) % Len(x[1])) + 1]]

\* list(zip(*x)): the columns of x as rows; nothing when x has no row
Zip(x) == IF x = <<>> THEN <<>> ELSE [j \in 1..Len(x[1]) |-> [i \in 1..Len(x) |-> x[i][j]]]

\* the number of factors the loop of feed_dict visits: zip stops at the shortest list
FactorCount(self) == MinOf({Len(self.input_factors), Len(self.data_ids), Len(self.vocabularies)})

\* the tensors feed_dict computes for factor i
FactorTensors(self, dataset, train, i) == sentences_to_tensor(self.vocabularies[i], get_series(dataset, self.data_ids[i]), self.max_length, train, self.add_start_symbol, self.add_end_symbol)

\* the comparison with "> 2" in place of "> 1": two distinct strings pass
MasksDifferMoreThanTwo(arr_strings) == Cardinality(Range(arr_strings)) > 2

\* the factors' masks differ when more than one distinct string was collected
MasksDiffer(arr_strings) == Cardinality(Range(arr_strings)) > 1

\* what feed_dict returns: the exception raised ("none" when it returns) and the
\* feed dictionary, a function from placeholders to fed values
feed_dict(self, dataset, train) ==
    LET n == FactorCount(self)
        arr_strings == [i \in 1..n |-> tostring(FactorTensors(self, dataset, train, i).paddings)]
        factor_fd == [plc \in {self.input_factors[i] : i \in 1..n} |-> Zip(FactorTensors(self, dataset, train, CHOOSE i \in 1..n : self.input_factors[i] = plc).vectors)]
    IN IF MasksDiffer(arr_strings) THEN [err |-> "ValueError", fd |-> <<>>]
       ELSE IF n = 0 THEN [err |-> "TypeError", fd |-> <<>>]
       ELSE [err |-> "none", fd |-> [plc \in DOMAIN factor_fd \cup {self.mask} |-> IF plc = self.mask THEN Zip(FactorTensors(self, dataset, train, n).paddings) ELSE factor_fd[plc]]]

\* EmbeddedFactorSequence(name, vocabularies, data_ids, embedding_sizes, max_length,
\* add_start_symbol, add_end_symbol)
ConstructSequence(vocabularies, data_ids, embedding_sizes, max_length, add_start_symbol, add_end_symbol) ==
    /\ ~seq.constructed
    /\ op = "none"
    /\ op' = "seq_init"
    /\ arg' = [vocabularies |-> vocabularies, data_ids |-> data_ids, embedding_sizes |-> embedding_sizes, max_length |-> max_length]
    /\ err' = SeqInitError(vocabularies, data_ids, embedding_sizes, max_length)
    /\ seq' = IF SeqInitError(vocabularies, data_ids, embedding_sizes, max_length) = "none"
              THEN SeqInitObject(vocabularies, data_ids, embedding_sizes, max_length, add_start_symbol, add_end_symbol)
              ELSE seq
    /\ UNCHANGED <<att, params, out, calls, loop_state, steps_done, histories, summaries, finalized, fd, variables>>

\* feed_dict(dataset, train) on the constructed object
FeedDict(dataset, train) ==
    /\ seq.constructed
    /\ calls < MaxFeeds
    /\ calls' = calls + 1
    /\ op' = "feed_dict"
    /\ arg' = [dataset |-> dataset, train |-> train]
    /\ err' = feed_dict(seq, dataset, train).err
    /\ fd' = feed_dict(seq, dataset, train).fd
    /\ UNCHANGED <<att, params, out, loop_state, steps_done, histories, summaries, finalized, seq, variables>>

InitSeq ==
    /\ att = NoAttention
    /\ params \in {ps \in ParamSets : ps.bias = 0}
    /\ err = "none"
    /\ op = "none"
    /\ arg = <<>>
    /\ out = NoOut
    /\ calls = 0
    /\ loop_state = NoLoopState
    /\ steps_done = <<>>
    /\ histories = <<>>
    /\ summaries = <<>>
    /\ finalized = {}
    /\ seq = NoSequence
    /\ fd = <<>>
    /\ variables = {}

NextSeq ==
    \/ \E vocabularies \in SeqsUpTo({"v"}, MaxFactors), data_ids \in SeqsUpTo(SeriesNames, MaxFactors), embedding_sizes \in SeqsUpTo(-1..1, MaxFactors) :
         \E max_length \in {None} \cup {Some(n) : n \in -1..MaxLen}, add_start_symbol \in BOOLEAN, add_end_symbol \in BOOLEAN :
            ConstructSequence(vocabularies, data_ids, embedding_sizes, max_length, add_start_symbol, add_end_symbol)
    \/ \E dataset \in Datasets, train \in BOOLEAN : FeedDict(dataset, train)

SpecSeq == InitSeq /\ [][NextSeq]_vars

----------------------------------------------------------------------------
(* Reading the returned tensors *)

\* 1 / 1e-6, the tolerance of the row sums
TolInv == 10^6

\* the fraction n / (a + b * 1e-8) is a number (its denominator is not 0) and is 0
IsZero(n, a, b) == n = 0 /\ (a > 0 \/ b > 0) /\ a >= 0 /\ b >= 0

\* the row num / (a + b * 1e-8), whose entries sum to at most 1, sums to 1 within
\* 1e-6: with d = a - sum(num), 1e6 * (d + b * 1e-8) <= a + b * 1e-8
SumWithinTol(row) ==
    LET d == row.a - SumSeq(row.num)
    IN /\ d >= 0
       /\ row.a > 0
       /\ d <= row.a \div TolInv
       /\ LeqProd(TolInv - 1, row.b, EpsInv, row.a - TolInv * d)

\* every entry of the row is exactly 0
RowIsZero(row) == \A k \in DOMAIN row.num : IsZero(row.num[k], row.a, row.b)

\* the call whose result is in out was attention_4d and it returned
Computed == op = "compute" /\ err = "none"

----------------------------------------------------------------------------
(* Claims about construction and attention_4d, under Spec *)

\* C1: the constructor returns if and only if n_heads > 0, 0 < dropout_keep_prob <= 1
\* and the keys' channel count is a multiple of n_heads; otherwise it raises the
\* configuration error (ValueError) and no object exists.
C1_ConstructIff ==
    op = "init" =>
        /\ err = "none" <=> (arg.n_heads > 0 /\ arg.p[1] > 0 /\ arg.p[1] <= arg.p[2] /\ arg.dimension % arg.n_heads = 0)
        /\ err \in {"none", "ValueError"}
        /\ att.constructed <=> err = "none"

\* C1 witness: 3 heads over 2 channels is refused
C1_Witness == op = "init" /\ err = "ValueError" /\ arg.n_heads = 3 /\ arg.dimension = 2 /\ arg.p = <<2, 2>>

\* C2: with a validity mask, every returned weight of a padding key (mask 0) is
\* exactly 0, with or without the causal mask and with or without dropout.
C2_PaddingZero ==
    (Computed /\ att.attention_mask # NoMask) =>
        \A b \in DOMAIN out.weights : \A h \in DOMAIN out.weights[b] : \A q \in DOMAIN out.weights[b][h] : \A k \in DOMAIN out.weights[b][h][q].num :
            att.attention_mask[b][k] = 0 => IsZero(out.weights[b][h][q].num[k], out.weights[b][h][q].a, out.weights[b][h][q].b)

\* C2 witness: a padded second key, causal mask and active dropout, and the first
\* key keeps a weight that is not 0
C2_Witness ==
    /\ Computed
    /\ att.attention_mask = <<<<1, 0>>>>
    /\ arg.masked
    /\ DropoutActive(att.dropout_keep_prob, att.train_mode)
    /\ out.weights[1][1][1].num[1] > 0

\* C3: with the causal mask, the weight of every key after the query position
\* (k > q) is exactly 0.
C3_CausalZero ==
    (Computed /\ arg.masked) =>
        \A b \in DOMAIN out.weights : \A h \in DOMAIN out.weights[b] : \A q \in DOMAIN out.weights[b][h] : \A k \in DOMAIN out.weights[b][h][q].num :
            k > q => IsZero(out.weights[b][h][q].num[k], out.weights[b][h][q].a, out.weights[b][h][q].b)

\* C3 witness: two queries over two keys; the first query gives the second key
\* nothing, the second query gives it a weight that is not 0
C3_Witness ==
    /\ Computed
    /\ arg.masked
    /\ Len(out.weights[1][1]) = 2
    /\ Len(out.weights[1][1][1].num) = 2
    /\ out.weights[1][1][1].num[2] = 0
    /\ out.weights[1][1][2].num[2] > 0

\* the softmax row [b, h, q] of the call in arg, before mask_weights
SoftmaxRow(b, h, q) == Softmax(masked_energies(att, params, arg.query, arg.masked))[b][h][q]

\* the part of the softmax row's total that lies on valid keys
ValidMass(b, h, q) == SumSeq([k \in DOMAIN SoftmaxRow(b, h, q).num |-> SoftmaxRow(b, h, q).num[k] * att.attention_mask[b][k]])

\* the returned weights are the renormalized ones: a mask, and dropout inactive
Renormalized == Computed /\ att.attention_mask # NoMask /\ ~DropoutActive(att.dropout_keep_prob, att.train_mode)

\* C4 as claimed: every row of the mask-renormalized weights sums to 1 within 1e-6.
C4_RowSumIsOne ==
    Renormalized =>
        \A b \in DOMAIN out.weights : \A h \in DOMAIN out.weights[b] : \A q \in DOMAIN out.weights[b][h] :
            SumWithinTol(out.weights[b][h][q])

\* C4 amended: a row of the mask-renormalized weights never sums to more than 1;
\* it sums to 1 within 1e-6 if and only if the valid keys hold at least
\* 1e-8 * (1e6 - 1) (about 1%) of the row's softmax mass; a row whose valid keys
\* hold no mass is 0 everywhere.
C4_RowSumByValidMass ==
    Renormalized =>
        \A b \in DOMAIN out.weights : \A h \in DOMAIN out.weights[b] : \A q \in DOMAIN out.weights[b][h] :
            /\ SumSeq(out.weights[b][h][q].num) <= out.weights[b][h][q].a
            /\ SumWithinTol(out.weights[b][h][q]) <=> LeqProd(TolInv - 1, SoftmaxRow(b, h, q).a, EpsInv, ValidMass(b, h, q))
            /\ ValidMass(b, h, q) = 0 => RowIsZero(out.weights[b][h][q])

\* C4 witness: in one call, a row that sums to 1 within 1e-6 and a row with a
\* valid key that does not
C4_Witness ==
    /\ Renormalized
    /\ Len(out.weights[1][1]) = 2
    /\ ~SumWithinTol(out.weights[1][1][1])
    /\ SumSeq(out.weights[1][1][1].num) > 0
    /\ SumWithinTol(out.weights[1][1][2])

\* C6 as claimed: for every constructed object, attention_4d returns a context
\* whose channel count is context_vector_size (the values' channel count).
C6_ContextWidth ==
    op = "compute" => (err = "none" /\ Channels(out.context) = context_vector_size(att))

\* softmax(Q K^T / sqrt(d)) V for one head over the whole channel axis:
\* [batch, time(q), channels] of fractions
PlainAttention(query_3d, keys, values, d) ==
    LET scaled == ScaleQuery(query_3d, [inv_sqrt |-> d])
        energies == MatMulT([b \in DOMAIN scaled.val |-> <<scaled.val[b]>>], [b \in DOMAIN keys |-> <<keys[b]>>])
        weights == Softmax(energies)
    IN [b \in DOMAIN weights |-> [q \in DOMAIN weights[b][1] |-> [j \in DOMAIN values[b][1] |-> [n |-> SumSeq([k \in DOMAIN values[b] |-> weights[b][1][q].num[k] * values[b][k][j]]), a |-> weights[b][1][q].a, b |-> weights[b][1][q].b]]]]

\* the context entry k + sum of fr equals the fraction r (all without epsilon part)
RealEqFrac(x, r) ==
    /\ r.b = 0
    /\ \A i \in DOMAIN x.fr : x.fr[i].b = 0 /\ x.fr[i].a = x.fr[1].a
    /\ (x.k * x.fr[1].a + SumSeq([i \in DOMAIN x.fr |-> x.fr[i].n])) * r.a = r.n * x.fr[1].a

\* C7 as claimed: with one head, no validity mask, no causal mask and inactive
\* dropout, the returned context is softmax(Q K^T / sqrt(d)) V (for values over
\* the keys' positions, where the product is defined).
C7_SingleHeadIsPlain ==
    (Computed /\ att.n_heads = 1 /\ att.attention_mask = NoMask /\ ~arg.masked /\ ~DropoutActive(att.dropout_keep_prob, att.train_mode) /\ Time(att.attention_values) = Time(att.attention_keys)) =>
        \A b \in DOMAIN out.context : \A q \in DOMAIN out.context[b] : \A c \in DOMAIN out.context[b][q] :
            RealEqFrac(out.context[b][q][c], PlainAttention(arg.query, att.attention_keys, att.attention_values, att.dimension)[b][q][c])

----------------------------------------------------------------------------
(* Claims about the decoding loop, under SpecLoop *)

\* the steps made since initial_loop_state were the steps 0, 1, ..., T - 1 in order
SequentialSteps == steps_done = [t \in 1..Len(steps_done) |-> t - 1]

\* C5 as claimed: after initial_loop_state, T sequential steps and
\* finalize_loop(key), the history stored for every head has time-length exactly
\* T; with T = 0 the stored histories have time-length 0 and there is no error.
C5_HistoryLength ==
    (op = "finalize_loop" /\ SequentialSteps) =>
        /\ err = "none"
        /\ \A i \in 0..(att.n_heads - 1) :
              /\ HeadKey(arg.key, i) \in DOMAIN histories
              /\ histories[HeadKey(arg.key, i)].err = "none"
              /\ Len(histories[HeadKey(arg.key, i)].value) = Len(steps_done)

\* C8: visualize_attention(key) returns exactly when a history is stored under key
\* for every head 0..H-1, which is exactly when finalize_loop(key, ...) was called
\* before; otherwise it raises the lookup error (ValueError), and a failing call
\* leaves the stored histories as they were.
C8_VisualizeIffFinalized ==
    /\ [](op = "visualize_attention" =>
            /\ err \in {"none", "ValueError"}
            /\ err = "none" <=> arg.key \in finalized
            /\ err = "none" <=> \A i \in 0..(att.n_heads - 1) : HeadKey(arg.key, i) \in DOMAIN histories)
    /\ [][(op' = "visualize_attention" /\ err' # "none") => histories' = histories]_vars

\* C8 witness: visualize_attention("val") fails while the histories of "train",
\* stored by finalize_loop("train"), are there
C8_Witness ==
    /\ op = "visualize_attention"
    /\ err = "ValueError"
    /\ arg.key = "val"
    /\ finalized = {"train"}
    /\ \A i \in 0..(att.n_heads - 1) : HeadKey("train", i) \in DOMAIN histories

----------------------------------------------------------------------------
(* Claims about the sequence provider, under SpecSeq *)

\* C9: the constructor of the embedded-factor sequence returns if and only if the
\* three lists have equal length, every embedding size is positive and the
\* maximum length is absent or positive; otherwise it raises the configuration
\* error (ValueError) and no object exists.
C9_SeqConstructIff ==
    op = "seq_init" =>
        /\ err = "none" <=>
              /\ Len(arg.vocabularies) = Len(arg.data_ids)
              /\ Len(arg.data_ids) = Len(arg.embedding_sizes)
              /\ \A i \in DOMAIN arg.embedding_sizes : arg.embedding_sizes[i] > 0
              /\ (arg.max_length = None \/ arg.max_length.value > 0)
        /\ err \in {"none", "ValueError"}
        /\ seq.constructed <=> err = "none"

\* C9 witness: two factors, the second with embedding size 0, are refused
C9_Witness == op = "seq_init" /\ err = "ValueError" /\ arg.embedding_sizes = <<1, 0>> /\ Len(arg.data_ids) = 2 /\ Len(arg.vocabularies) = 2 /\ arg.max_length = None

\* the padding mask [batch, time] of factor i in the call in arg
PaddingMask(i) == Zip(FactorTensors(seq, arg.dataset, arg.train, i).paddings)

\* C10: feed_dict raises the data error (ValueError) whenever the padding masks of
\* two factors differ; when it returns, the mask it feeds equals the padding mask
\* of every factor and the dictionary holds one entry for every factor placeholder.
C10_FeedMask ==
    op = "feed_dict" =>
        /\ (\E i, j \in DOMAIN seq.input_factors : PaddingMask(i) # PaddingMask(j)) => err = "ValueError"
        /\ err = "none" =>
              /\ \A i \in DOMAIN seq.input_factors : fd[seq.mask] = PaddingMask(i)
              /\ DOMAIN fd = Range(seq.input_factors) \cup {seq.mask}
              /\ Cardinality(DOMAIN fd) = Len(seq.input_factors) + 1

\* C10 witness: two factors over different series whose masks agree for a batch of
\* two sentences of different lengths; the fed mask marks the padding
C10_Witness ==
    /\ op = "feed_dict"
    /\ err = "none"
    /\ seq.data_ids = <<"a", "b">>
    /\ seq.max_length = None
    /\ fd[seq.mask] = <<<<1, 1>>, <<1, 0>>>>

----------------------------------------------------------------------------
(* Claims about the streams of the loop state, under SpecLoop *)

\* every head-weight stream of the loop state ls can be evaluated and has length n
HeadStreamsHaveLength(ls, n) == \A i \in DOMAIN ls.head_weights : ls.head_weights[i].err = "none" /\ Len(ls.head_weights[i].slots) = n

\* the context stream and every head-weight stream of the loop state ls can be
\* evaluated and have length n
StreamsHaveLength(ls, n) ==
    /\ ls.contexts.err = "none"
    /\ Len(ls.contexts.slots) = n
    /\ HeadStreamsHaveLength(ls, n)

\* neither the context stream nor any head-weight stream of ls can be evaluated
NoStreamEvaluable(ls) == ls.contexts.err # "none" /\ \A i \in DOMAIN ls.head_weights : ls.head_weights[i].err # "none"

\* a step index was given to two of the calls that returned since initial_loop_state
StepRepeated == \E i, j \in DOMAIN steps_done : i # j /\ steps_done[i] = steps_done[j]

\* the largest step index of the calls that returned, plus one; 0 before any call
StepsSpan == IF steps_done = <<>> THEN 0 ELSE (CHOOSE x \in Range(steps_done) : \A y \in Range(steps_done) : x >= y) + 1

\* the values of the object fit its keys: they can be split for the heads and
\* their batch and time axes broadcast with those of the weights
ValuesFit ==
    /\ SplitDefined(projected_values(att, params), att.n_heads, att.head_dim)
    /\ BroadcastDefined(Batch(att.attention_keys), Batch(att.attention_values))
    /\ BroadcastDefined(Time(att.attention_keys), Time(att.attention_values))

----------------------------------------------------------------------------
(* split_for_heads and the merge of attention_4d on their own *)

\* the tensor [nb, nt, nd] whose entries are base, base + 1, ... in row-major order
IndexTensor(nb, nt, nd, base) == [b \in 1..nb |-> [t \in 1..nt |-> [c \in 1..nd |-> base + ((b - 1) * nt + (t - 1)) * nd + (c - 1)]]]

\* the tensors [batch, time, dim] given to split_for_heads
SplitInputs == {IndexTensor(nb, nt, nd, base) : nb \in 1..MaxBatch, nt \in 1..MaxTime, nd \in 1..MaxChannels, base \in 0..MaxSeed}

\* the head counts the constructor accepts for dim channels
HeadCounts(dim) == {h \in 1..dim : dim % h = 0}

\* split_for_heads(x, n_heads, head_dim) with head_dim = dim / n_heads
SplitForHeads(x, n_heads) ==
    /\ op = "none"
    /\ op' = "split_for_heads"
    /\ arg' = [x |-> x, n_heads |-> n_heads, head_dim |-> Channels(x) \div n_heads]
    /\ err' = "none"
    /\ out' = [err |-> "none", context |-> <<>>, weights_err |-> "none", weights |-> split_for_heads(x, n_heads, Channels(x) \div n_heads)]
    /\ UNCHANGED <<att, params, calls, loop_state, steps_done, histories, summaries, finalized, seq, fd, variables>>

\* the merge of attention_4d applied to the split tensor: transpose to
\* [batch, time, head, head_dim] and reshape to [batch, time, dim]
MergeSplit ==
    /\ op = "split_for_heads"
    /\ op' = "merge"
    /\ err' = "none"
    /\ out' = [err |-> "none", context |-> MergeHeads(out.weights, Channels(arg.x)), weights_err |-> "none", weights |-> out.weights]
    /\ UNCHANGED <<att, params, arg, calls, loop_state, steps_done, histories, summaries, finalized, seq, fd, variables>>

InitHeads ==
    /\ att = NoAttention
    /\ params \in {ps \in ParamSets : ps.bias = 0}
    /\ err = "none"
    /\ op = "none"
    /\ arg = <<>>
    /\ out = NoOut
    /\ calls = 0
    /\ loop_state = NoLoopState
    /\ steps_done = <<>>
    /\ histories = <<>>
    /\ summaries = <<>>
    /\ finalized = {}
    /\ seq = NoSequence
    /\ fd = <<>>
    /\ variables = {}

NextHeads ==
    \/ \E x \in SplitInputs : \E n_heads \in HeadCounts(Channels(x)) : SplitForHeads(x, n_heads)
    \/ MergeSplit

SpecHeads == InitHeads /\ [][NextHeads]_vars

----------------------------------------------------------------------------
(* Claims about split_for_heads and the merge, under SpecHeads *)

\* C12: split_for_heads sends channel c (from 0) of [batch, time, D] to head
\* c div (D/H), slot c mod (D/H), at the same batch and time position, and the
\* merge applied to the split tensor returns the original tensor, for every H
\* dividing D.
C12_SplitMergeInverse ==
    /\ op \in {"split_for_heads", "merge"} =>
          /\ Len(out.weights) = Batch(arg.x)
          /\ \A b \in DOMAIN arg.x :
                /\ Len(out.weights[b]) = arg.n_heads
                /\ \A h \in 1..arg.n_heads : Len(out.weights[b][h]) = Time(arg.x) /\ \A t \in 1..Time(arg.x) : Len(out.weights[b][h][t]) = arg.head_dim
                /\ \A t \in DOMAIN arg.x[b] : \A c \in 0..(Channels(arg.x) - 1) :
                      out.weights[b][(c \div arg.head_dim) + 1][t][(c % arg.head_dim) + 1] = arg.x[b][t][c + 1]
    /\ op = "merge" => out.context = arg.x

\* C12 witness: a tensor of two sequences, MaxTime positions and 4 channels was
\* split into 2 heads and merged back; channel 2 (from 0) is slot 0 of head 1
C12_Witness ==
    /\ op = "merge"
    /\ arg.n_heads = 2
    /\ arg.head_dim = 2
    /\ Batch(arg.x) = 2
    /\ Time(arg.x) = MaxTime
    /\ out.weights[2][2][MaxTime][1] = arg.x[2][MaxTime][3]
    /\ out.weights[2][2][MaxTime][1] # out.weights[2][1][MaxTime][1]
    /\ out.context = arg.x

----------------------------------------------------------------------------
(* Claims about fully masked rows, under Spec *)

\* every key of batch element b is padding
FullyMasked(b) == \A k \in DOMAIN att.attention_mask[b] : att.attention_mask[b][k] = 0

\* C13: when every key of a batch element is masked out, the divisor of the
\* renormalization is not 0 (it is the row sum plus 1e-8) and every returned
\* weight of every row of that batch element is exactly 0: no NaN, no infinity.
C13_FullyMaskedRowIsZero ==
    (Computed /\ att.attention_mask # NoMask) =>
        \A b \in DOMAIN out.weights : FullyMasked(b) =>
            \A h \in DOMAIN out.weights[b] : \A q \in DOMAIN out.weights[b][h] :
                /\ out.weights[b][h][q].a = 0
                /\ out.weights[b][h][q].b > 0
                /\ RowIsZero(out.weights[b][h][q])

\* C13 witness: two heads over MaxTime keys, all padding, with the causal mask;
\* the rows are 0 over a divisor that is the epsilon term alone
C13_Witness ==
    /\ Computed
    /\ att.attention_mask = <<[k \in 1..MaxTime |-> 0]>>
    /\ att.n_heads = 2
    /\ arg.masked
    /\ Len(out.weights[1][2]) = MaxTime
    /\ out.weights[1][2][MaxTime].num = [k \in 1..MaxTime |-> 0]
    /\ out.weights[1][2][MaxTime].a = 0
    /\ out.weights[1][2][MaxTime].b > 0

====
